---- MODULE Spec2Model ----
(***************************************************************************)
(* BaseComponent of trubrics/components/base.py: the what-if form builder  *)
(* (generate_what_if) and the feedback assembler (feedback).               *)
(*                                                                         *)
(* A DataFrame is a record [columns, dtypes, series]: the ordered column   *)
(* names, the dtype of each column and the cells of each column.  Numeric  *)
(* cells are fixed-point: the cell n stands for the number n / Scale, so   *)
(* an int64 column holds multiples of Scale and a float64 column holds    *)
(* any n.  An Optional value is <<>> (None) or <<x>>.                      *)
(***************************************************************************)
EXTENDS Integers, Sequences, FiniteSets, TLC

Scale == 2

None == <<>>
Some(x) == <<x>>
NaN == "NaN"

Range(s) == {s[i] : i \in DOMAIN s}

(***************************************************************************)
(* Python and pandas helpers used by the component.                        *)
(***************************************************************************)

\* int(x) for x = num / den, den > 0: truncation toward zero
py_int(num, den) == IF num >= 0 THEN num \div den ELSE -((-num) \div den)

\* round(x) for x = num / den, den > 0: round half to even
py_round(num, den) ==
    LET q == num \div den
        r == num % den
    IN  IF 2 * r < den THEN q
        ELSE IF 2 * r > den THEN q + 1
        ELSE IF q % 2 = 0 THEN q ELSE q + 1

is_numeric_dtype(dtype) == dtype \in {"int64", "float64"}

RECURSIVE series_min(_)
series_min(s) ==
    IF Len(s) = 1 THEN s[1]
    ELSE LET m == series_min(Tail(s)) IN IF s[1] < m THEN s[1] ELSE m

RECURSIVE series_max(_)
series_max(s) ==
    IF Len(s) = 1 THEN s[1]
    ELSE LET m == series_max(Tail(s)) IN IF s[1] > m THEN s[1] ELSE m

RECURSIVE series_sum(_)
series_sum(s) == IF s = <<>> THEN 0 ELSE s[1] + series_sum(Tail(s))

dropna(s) == SelectSeq(s, LAMBDA v : v # NaN)

\* Series.unique(): the distinct cells in order of first appearance
RECURSIVE unique(_)
unique(s) ==
    IF s = <<>> THEN <<>>
    ELSE LET u == unique(SubSeq(s, 1, Len(s) - 1))
         IN  IF s[Len(s)] \in Range(u) THEN u ELSE Append(u, s[Len(s)])

\* DataFrame.drop(columns=[col])
drop(df, col) ==
    LET keep == SelectSeq(df.columns, LAMBDA c : c # col)
    IN  [columns |-> keep,
         dtypes  |-> [c \in Range(keep) |-> df.dtypes[c]],
         series  |-> [c \in Range(keep) |-> df.series[c]]]

\* trubrics.utils.pandas.schema_is_equal: same column names with the same
\* dtypes, whatever the column order and the cells
schema_is_equal(df1, df2) ==
    /\ Range(df1.columns) = Range(df2.columns)
    /\ \A c \in Range(df1.columns) : df1.dtypes[c] = df2.dtypes[c]

\* DataContext.list_features: the columns minus the target column
list_features(d) == SelectSeq(d.testing_data.columns, LAMBDA c : c # d.target_column)

\* out_df[col] = [value] on a one-row frame: a new column goes last
setitem(out_df, col, value) ==
    [columns |-> IF col \in Range(out_df.columns) THEN out_df.columns
                 ELSE Append(out_df.columns, col),
     vals    |-> [c \in Range(out_df.columns) \cup {col} |->
                    IF c = col THEN value ELSE out_df.vals[c]]]

\* DataFrame.to_dict() of a one-row frame: {column: {0: value}}
to_dict(df) == [c \in Range(df.columns) |-> [i \in {0} |-> df.vals[c]]]

(***************************************************************************)
(* The inputs the model draws: DataContexts and override DataFrames.       *)
(***************************************************************************)

FeatureNames == <<"age", "city">>
Target == "target"
Dtypes == {"int64", "float64", "object"}
TargetDtypes == {"int64", "object"}

\* the observed cells a feature column of each dtype may hold
SeriesPool(dtype) ==
    IF dtype = "int64" THEN <<  <<Scale, 2 * Scale>>, <<-Scale, -Scale>>  >>
    ELSE IF dtype = "float64" THEN <<  <<Scale + 1, Scale + 1>>, <<-(Scale + 1), 1>>  >>
    ELSE <<  <<"NY", "LA">>, <<"NY", NaN>>  >>

TargetSeries(dtype) == IF dtype = "int64" THEN <<0, Scale>> ELSE <<"yes", "no">>

Alias(col) == IF col = "age" THEN "Age (years)" ELSE "City"

\* every DataFrame with the column sequence cols
Frames(cols) ==
    {[columns |-> cols,
      dtypes  |-> dt,
      series  |-> [c \in Range(cols) |->
                     IF c = Target THEN TargetSeries(dt[c]) ELSE SeriesPool(dt[c])[k[c]]]] :
        dt \in {d \in [Range(cols) -> Dtypes] : Target \in Range(cols) => d[Target] \in TargetDtypes},
        k  \in [Range(cols) -> 1..2]}

Orderings(S) ==
    {p \in [1..Cardinality(S) -> S] : \A i, j \in 1..Cardinality(S) : p[i] = p[j] => i = j}

\* reference frames list the chosen features in FeatureNames order, target last
ReferenceFrames ==
    UNION {Frames(SelectSeq(FeatureNames, LAMBDA c : c \in S) \o <<Target>>) :
              S \in SUBSET Range(FeatureNames)}

\* override frames list any choice of features and the target in any order
OverrideFrames ==
    UNION {UNION {Frames(cols) : cols \in Orderings(S \cup {Target})} :
              S \in SUBSET Range(FeatureNames)}

DataContexts ==
    UNION {{[testing_data        |-> df,
             target_column       |-> Target,
             business_columns    |-> bc,
             categorical_columns |-> cc] :
               bc \in {None} \cup {Some([c \in A |-> Alias(c)]) :
                                      A \in {{"age"}} \cap SUBSET Range(df.columns)},
               cc \in {None} \cup {Some(C) : C \in SUBSET (Range(df.columns) \ {Target})}} :
            df \in ReferenceFrames}

(***************************************************************************)
(* State.                                                                  *)
(***************************************************************************)
VARIABLES
    data,       \* self.data, the DataContext given to __init__
    op,         \* the method that ran last: "none", "generate_what_if", "feedback"
    wi_data,    \* generate_what_if: the wi_data argument (None when omitted)
    requests,   \* the widget calls the method issued to streamlit, in order
    raised,     \* the exception the method raised, or NoError
    out_df,     \* generate_what_if: the returned frame (None when it raised)
    what_if_df, \* feedback: the what_if_df argument
    tracking,   \* feedback: the tracking argument
    test_type,  \* feedback: the label chosen in the first selectbox
    button,     \* feedback: what st.button("Send feedback") returned
    t_ctx,      \* feedback: the TrubricContext constructed (None before line 114)
    saved,      \* feedback: the records handed to save_test_to_json, in order
    log         \* feedback: the messages passed to logger.info, in order

vars == <<data, op, wi_data, requests, raised, out_df, what_if_df, tracking,
          test_type, button, t_ctx, saved, log>>

Error(type, col) == [type |-> type, col |-> col]
NoError == Error("none", "")

Init ==
    /\ data \in DataContexts
    /\ op = "none"
    /\ wi_data = None
    /\ requests = <<>>
    /\ raised = NoError
    /\ out_df = None
    /\ what_if_df = None
    /\ tracking = FALSE
    /\ test_type = ""
    /\ button = FALSE
    /\ t_ctx = None
    /\ saved = <<>>
    /\ log = <<>>

(***************************************************************************)
(* streamlit, the widget renderer.  A widget call returns one value of the *)
(* domain it was given, chosen by the user.  A slider or number input      *)
(* whose default lies outside its bounds is an invalid call: streamlit may *)
(* reject it with an exception, and it cannot return a value when the      *)
(* bounds are empty.  A selectbox without options returns None.            *)
(***************************************************************************)
Reply(value) == [ok |-> TRUE, value |-> value]
Rejected == [ok |-> FALSE, value |-> 0]

st_slider(req) ==
    {Reply(v) : v \in req.min_value..req.max_value}
        \cup (IF req.value \in req.min_value..req.max_value THEN {} ELSE {Rejected})

st_number_input(req) ==
    {Reply(v) : v \in req.min_value..req.max_value}
        \cup (IF req.value \in req.min_value..req.max_value THEN {} ELSE {Rejected})

st_selectbox(req) ==
    IF req.options = <<>> THEN {Reply("None")} ELSE {Reply(v) : v \in Range(req.options)}

(***************************************************************************)
(* generate_what_if                                                        *)
(***************************************************************************)
Outcome(err, reqs, ret) == [raised |-> err, requests |-> reqs, returned |-> ret]

\* lines 39-40: an override whose schema differs from the testing data
schema_differs_never(wi) == FALSE

schema_differs(wi) == wi # None /\ ~schema_is_equal(wi[1], data.testing_data)

\* lines 36-42: the frame the widgets are derived from
basis(wi) ==
    IF wi = None THEN drop(data.testing_data, data.target_column)
    ELSE drop(wi[1], data.target_column)

\* lines 47-50: the widget label
renamed_col_raw(col) == col

renamed_col(col) ==
    IF data.business_columns # None /\ col \in DOMAIN data.business_columns[1]
    THEN data.business_columns[1][col]
    ELSE col

\* lines 56-61
slider_request(label, series) ==
    [widget    |-> "slider",
     label     |-> label,
     min_value |-> py_int(series_min(series), Scale),
     max_value |-> py_int(series_max(series), Scale),
     value     |-> py_round(series_sum(series), Len(series) * Scale)]

\* line 64
selectbox_request(label, series) ==
    [widget |-> "selectbox", label |-> label, options |-> unique(dropna(series))]

\* lines 67-73
number_input_request(label, series) ==
    [widget    |-> "number_input",
     label     |-> label,
     min_value |-> py_int(series_min(series), Scale),
     max_value |-> py_int(series_max(series), Scale),
     value     |-> py_int(series_sum(series), Len(series) * Scale)]

\* lines 51-76: the request for one column, or the exception raised instead
column_request(wi, col) ==
    LET series == wi.series[col]
        dtype  == wi.dtypes[col]
    IN  IF data.categorical_columns = None
        THEN [error |-> Error("ValueError", "")]
        ELSE IF col \in data.categorical_columns[1]
        THEN IF is_numeric_dtype(dtype)
             THEN [error |-> NoError, request |-> slider_request(renamed_col(col), series)]
             ELSE [error |-> NoError, request |-> selectbox_request(renamed_col(col), series)]
        ELSE IF is_numeric_dtype(dtype)
        THEN [error |-> NoError, request |-> number_input_request(renamed_col(col), series)]
        ELSE [error |-> Error("NotImplementedError", col)]

widget_replies(req) ==
    IF req.widget = "slider" THEN st_slider(req)
    ELSE IF req.widget = "selectbox" THEN st_selectbox(req)
    ELSE st_number_input(req)

\* lines 44-77: the loop from column k on, with the frame and the widget
\* calls so far; the set of ways it can end, one per choice of the user
RECURSIVE what_if_loop(_, _, _, _)
what_if_loop(wi, k, df, reqs) ==
    IF k > Len(wi.columns) THEN {Outcome(NoError, reqs, Some(df))}
    ELSE LET col  == wi.columns[k]
             step == column_request(wi, col)
         IN  IF step.error # NoError THEN {Outcome(step.error, reqs, None)}
             ELSE UNION {IF r.ok
                         THEN what_if_loop(wi, k + 1, setitem(df, col, r.value),
                                           Append(reqs, step.request))
                         ELSE {Outcome(Error("StreamlitAPIException", ""),
                                       Append(reqs, step.request), None)} :
                            r \in widget_replies(step.request)}

EmptyFrame == [columns |-> <<>>, vals |-> <<>>]

\* lines 29-77
what_if_outcomes(wi) ==
    IF schema_differs(wi) THEN {Outcome(Error("SchemaError", ""), <<>>, None)}
    ELSE what_if_loop(basis(wi), 1, EmptyFrame, <<>>)

generate_what_if ==
    /\ op = "none"
    /\ \E wi \in {None} \cup {Some(df) : df \in OverrideFrames} :
         \E o \in what_if_outcomes(wi) :
            /\ op' = "generate_what_if"
            /\ wi_data' = wi
            /\ requests' = o.requests
            /\ raised' = o.raised
            /\ out_df' = o.returned
    /\ UNCHANGED <<data, what_if_df, tracking, test_type, button, t_ctx, saved, log>>

(***************************************************************************)
(* feedback                                                                *)
(***************************************************************************)
FeedbackTypes == <<"Single prediction error", "Bias", "Important features", "Other">>

\* what the first selectbox can hand back: one of its options, or, from a
\* renderer that does not keep to them, some other label
Labels == Range(FeedbackTypes) \cup {"Unknown"}

DefaultText == "Send free text feedback here"
Texts == {DefaultText, "The model underestimates."}

Collected(err, reqs, metadata) == [raised |-> err, requests |-> reqs, metadata |-> metadata]

\* lines 82-90
type_request == [widget |-> "selectbox", label |-> "Choose feedback type:", options |-> FeedbackTypes]

\* line 95
collect_other ==
    {Collected(NoError,
               <<[widget |-> "text_input", label |-> "", value |-> DefaultText]>>,
               Some([description |-> t])) : t \in Texts}

\* lines 120-134
_collect_single_edge_case ==
    LET req == [widget  |-> "selectbox",
                label   |-> "The model prediction for this edge case should be:",
                options |-> unique(data.testing_data.series[data.target_column])]
    IN  {[requests |-> <<req>>, corrected_prediction |-> r.value,
          description |-> "A single edge case."] : r \in st_selectbox(req)}

\* lines 97-98, without line 99
collect_single_prediction_error_no_input(df) ==
    {Collected(NoError, c.requests,
               Some([corrected_prediction |-> c.corrected_prediction,
                     description          |-> c.description])) :
        c \in _collect_single_edge_case}

\* lines 97-99
collect_single_prediction_error(df) ==
    {Collected(NoError, c.requests,
               Some([corrected_prediction |-> c.corrected_prediction,
                     description          |-> c.description,
                     input                |-> to_dict(df)])) :
        c \in _collect_single_edge_case}

\* lines 136-148: a slider without value starts at min_value
_collect_important_features_feedback ==
    LET features == list_features(data)
        choose   == [widget |-> "selectbox", label |-> "Choose model feature:",
                     options |-> features]
        rank     == [widget    |-> "slider",
                     label     |-> "The selected feature should be in the top ... features:",
                     min_value |-> 1,
                     max_value |-> Len(features),
                     value     |-> 1]
    IN  {[ok |-> n.ok, requests |-> <<choose, rank>>, selected_feature |-> f.value,
          top_n_feature |-> n.value, description |-> "Most important features."] :
            f \in st_selectbox(choose), n \in st_slider(rank)}

\* lines 101-106
collect_important_features ==
    {IF c.ok
     THEN Collected(NoError, c.requests,
                    Some([selected_feature |-> c.selected_feature,
                          top_n_feature    |-> c.top_n_feature,
                          description      |-> c.description]))
     ELSE Collected(Error("StreamlitAPIException", ""), c.requests, None) :
        c \in _collect_important_features_feedback}

\* lines 108-109
collect_bias == {Collected(NoError, <<>>, Some([description |-> "Feedback on bias."]))}

\* lines 92-112, with the final else taking the Bias branch
feedback_metadata_defaulting(df, label) ==
    IF label = "Other" THEN collect_other
    ELSE IF label = "Single prediction error" THEN collect_single_prediction_error(df)
    ELSE IF label = "Important features" THEN collect_important_features
    ELSE collect_bias

\* lines 92-112
feedback_metadata(df, label) ==
    IF label = "Other" THEN collect_other
    ELSE IF label = "Single prediction error" THEN collect_single_prediction_error(df)
    ELSE IF label = "Important features" THEN collect_important_features
    ELSE IF label = "Bias" THEN collect_bias
    ELSE {Collected(Error("NotImplementedError", ""), <<>>, None)}

\* line 114
TrubricContext(label, metadata) == [test_type |-> label, metadata |-> metadata]

\* lines 115-116, without the button
send_feedback_always(ctx, btn) == <<ctx>>

\* lines 115-116: the records handed to save_test_to_json
send_feedback(ctx, btn) == IF btn THEN <<ctx>> ELSE <<>>

\* line 117
log_message(trk) ==
    IF trk THEN "Predictions saved to Trubrics UI." ELSE "Predictions saved locally."

\* lines 79-118; the caller passes the frame generate_what_if returned
feedback ==
    /\ op = "generate_what_if"
    /\ out_df # None
    /\ \E trk \in BOOLEAN, label \in Labels, btn \in BOOLEAN :
         \E m \in feedback_metadata(out_df[1], label) :
            /\ op' = "feedback"
            /\ what_if_df' = out_df
            /\ tracking' = trk
            /\ test_type' = label
            /\ requests' = <<type_request>> \o m.requests
            /\ raised' = m.raised
            /\ IF m.raised = NoError
               THEN LET ctx == TrubricContext(label, m.metadata[1])
                    IN  /\ t_ctx' = Some(ctx)
                        /\ button' = btn
                        /\ saved' = send_feedback(ctx, btn)
                        /\ log' = IF btn THEN <<log_message(trk)>> ELSE <<>>
               ELSE /\ t_ctx' = None
                    /\ button' = FALSE
                    /\ saved' = <<>>
                    /\ log' = <<>>
    /\ wi_data' = None
    /\ UNCHANGED <<data, out_df>>

Next == generate_what_if \/ feedback

Spec == Init /\ [][Next]_vars

(***************************************************************************)
(* Properties.                                                             *)
(***************************************************************************)
Abs(x) == IF x < 0 THEN -x ELSE x

\* the feature columns of the schema: the testing data's columns, target left out
SchemaFeatures == SelectSeq(data.testing_data.columns, LAMBDA c : c # data.target_column)

\* the frame whose cells the widgets of the last generate_what_if describe
StatsFrame == IF wi_data = None THEN data.testing_data ELSE wi_data[1]
StatsFeatures == SelectSeq(StatsFrame.columns, LAMBDA c : c # data.target_column)

\* t is num / den cut to an integer toward zero
IsTruncation(t, num, den) ==
    /\ Abs(t) * den <= Abs(num)
    /\ Abs(num) < (Abs(t) + 1) * den
    /\ t * num >= 0

\* d is the integer nearest to num / den, the even one of two equally near
IsRounding(d, num, den) ==
    /\ 2 * Abs(d * den - num) <= den
    /\ 2 * Abs(d * den - num) = den => d % 2 = 0

Least(s) == CHOOSE x \in Range(s) : \A y \in Range(s) : x <= y
Greatest(s) == CHOOSE x \in Range(s) : \A y \in Range(s) : x >= y

RECURSIVE Total(_)
Total(s) == IF Len(s) = 0 THEN 0 ELSE Total(SubSeq(s, 1, Len(s) - 1)) + s[Len(s)]

\* C1: a generate_what_if call either raises and returns no frame, or returns
\* a row with exactly the schema's feature columns, in schema column order,
\* also when an override lists the columns in another order.
C1_RowInSchemaOrder ==
    op = "generate_what_if" =>
        \/ raised # NoError /\ out_df = None
        \/ /\ raised = NoError
           /\ out_df # None
           /\ out_df[1].columns = SchemaFeatures
           /\ DOMAIN out_df[1].vals = Range(SchemaFeatures)

\* the set of (column name, dtype) pairs of a frame
NameTypes(df) == {<<c, df.dtypes[c]>> : c \in Range(df.columns)}

\* C2: an override that differs from the testing data in a column name or a
\* column dtype makes generate_what_if raise SchemaError with no widget
\* called and no frame returned; an override with the same names and dtypes
\* passes the schema check whatever its cells and its column order.
C2_SchemaCheck ==
    op = "generate_what_if" /\ wi_data # None =>
        IF NameTypes(wi_data[1]) # NameTypes(data.testing_data)
        THEN raised.type = "SchemaError" /\ requests = <<>> /\ out_df = None
        ELSE raised.type # "SchemaError"

C2_Witness ==
    /\ op = "generate_what_if"
    /\ wi_data # None
    /\ Range(wi_data[1].columns) = Range(data.testing_data.columns)
    /\ \E c \in Range(wi_data[1].columns) : wi_data[1].dtypes[c] # data.testing_data.dtypes[c]
    /\ raised.type = "SchemaError"

\* C3: with categorical_columns None, a generate_what_if call that gets past
\* the schema check raises ValueError before any widget is called, also when
\* the target is the only column.
C3_MissingCategoricalRaises ==
    op = "generate_what_if" /\ data.categorical_columns = None /\ raised.type # "SchemaError" =>
        raised.type = "ValueError" /\ requests = <<>> /\ out_df = None

\* C4: a feedback label outside the four feedback types makes feedback raise
\* NotImplementedError at once: nothing further is collected, no
\* TrubricContext is constructed and save_test_to_json is not called.
C4_UnknownTypeRaises ==
    op = "feedback" /\ test_type \notin Range(FeedbackTypes) =>
        /\ raised.type = "NotImplementedError"
        /\ requests = <<type_request>>
        /\ t_ctx = None
        /\ saved = <<>>
        /\ log = <<>>

C4_Witness == op = "feedback" /\ test_type = "Unknown" /\ what_if_df # None

\* the metadata keys of each feedback type
MetadataKeys(label) ==
    IF label = "Single prediction error" THEN {"corrected_prediction", "description", "input"}
    ELSE IF label = "Important features" THEN {"selected_feature", "top_n_feature", "description"}
    ELSE {"description"}

\* C5: save_test_to_json is called at most once per feedback call, only when
\* the button was pressed and the call raised nothing, and only with the
\* constructed TrubricContext, which carries the chosen type and every
\* metadata key of that type; without the button, or when collection
\* raised, it is not called.
C5_SaveOnlyOnSubmit ==
    /\ Len(saved) <= 1
    /\ saved # <<>> =>
          /\ op = "feedback"
          /\ button
          /\ raised = NoError
          /\ t_ctx = Some(saved[1])
          /\ saved[1].test_type = test_type
          /\ saved[1].test_type \in Range(FeedbackTypes)
          /\ DOMAIN saved[1].metadata = MetadataKeys(test_type)
    /\ (~button \/ raised # NoError) => saved = <<>>

C5_Witness ==
    /\ op = "feedback"
    /\ button
    /\ saved # <<>>
    /\ test_type = "Important features"

\* C6: the constructed TrubricContext carries the chosen feedback type, and
\* its metadata has exactly the keys of that type: the fixed description for
\* single prediction error, important features and bias; for single
\* prediction error a corrected_prediction among the target column's cells
\* and, as input, the what-if row that was passed in.
C6_MetadataByType ==
    t_ctx # None =>
        LET m == t_ctx[1].metadata
        IN  /\ t_ctx[1].test_type = test_type
            /\ test_type \in Range(FeedbackTypes)
            /\ DOMAIN m = MetadataKeys(test_type)
            /\ test_type = "Single prediction error" =>
                  /\ m.description = "A single edge case."
                  /\ \E i \in DOMAIN data.testing_data.series[data.target_column] :
                        m.corrected_prediction = data.testing_data.series[data.target_column][i]
                  /\ DOMAIN m.input = Range(what_if_df[1].columns)
                  /\ \A c \in DOMAIN m.input :
                        DOMAIN m.input[c] = {0} /\ m.input[c][0] = what_if_df[1].vals[c]
            /\ test_type = "Important features" => m.description = "Most important features."
            /\ test_type = "Bias" => m.description = "Feedback on bias."

C6_Witness ==
    /\ t_ctx # None
    /\ test_type = "Single prediction error"
    /\ Len(what_if_df[1].columns) = 2

\* the widget call C7 expects for the column col of the frame df
C7_Shape(df, col, req) ==
    LET cat     == col \in data.categorical_columns[1]
        numeric == df.dtypes[col] \in {"int64", "float64"}
        s       == df.series[col]
        n       == Len(s) * Scale
    IN  /\ cat \/ numeric
        /\ req.label = IF data.business_columns # None /\ col \in DOMAIN data.business_columns[1]
                       THEN data.business_columns[1][col] ELSE col
        /\ cat /\ numeric =>
              /\ req.widget = "slider"
              /\ IsTruncation(req.min_value, Least(s), Scale)
              /\ IsTruncation(req.max_value, Greatest(s), Scale)
              /\ IsRounding(req.value, Total(s), n)
        /\ cat /\ ~numeric =>
              /\ req.widget = "selectbox"
              /\ Range(req.options) = Range(s) \ {NaN}
              /\ Cardinality(Range(req.options)) = Len(req.options)
        /\ ~cat /\ numeric =>
              /\ req.widget = "number_input"
              /\ IsTruncation(req.min_value, Least(s), Scale)
              /\ IsTruncation(req.max_value, Greatest(s), Scale)
              /\ IsTruncation(req.value, Total(s), n)

\* C7: the i-th widget call of generate_what_if is the one the (categorical,
\* numeric) class of the i-th feature column fixes: slider over the truncated
\* [min, max] with the rounded mean, selectbox over the distinct non-missing
\* cells, or number input over the truncated [min, max] with the truncated
\* mean; the cells are the override's when one is passed, else the testing
\* data's; the label is the business alias when there is one, else the
\* column name; a column neither categorical nor numeric gets no widget and
\* the call raises NotImplementedError naming it.
C7_RequestByColumnClass ==
    op = "generate_what_if" /\ raised.type # "SchemaError" /\ data.categorical_columns # None =>
        LET n == Len(requests)
        IN  /\ n <= Len(StatsFeatures)
            /\ \A i \in 1..n : C7_Shape(StatsFrame, StatsFeatures[i], requests[i])
            /\ raised = NoError => n = Len(StatsFeatures)
            /\ raised.type = "NotImplementedError" =>
                  /\ n < Len(StatsFeatures)
                  /\ raised.col = StatsFeatures[n + 1]
                  /\ raised.col \notin data.categorical_columns[1]
                  /\ StatsFrame.dtypes[raised.col] = "object"
            /\ raised.type \in {"none", "NotImplementedError", "StreamlitAPIException"}

C7_Witness ==
    /\ op = "generate_what_if"
    /\ wi_data # None
    /\ raised = NoError
    /\ Len(requests) = 2
    /\ \E i \in 1..2 : requests[i].widget = "slider" /\ requests[i].label = "Age (years)"
    /\ \E i \in 1..2 : requests[i].widget = "selectbox" /\ requests[i].label = "city"
    /\ wi_data[1].series # data.testing_data.series

\* C8: the default of every slider and number input generate_what_if calls
\* lies within the bounds passed in the same call.
C8_DefaultWithinBounds ==
    op = "generate_what_if" =>
        \A i \in DOMAIN requests :
            requests[i].widget \in {"slider", "number_input"} =>
                /\ requests[i].min_value <= requests[i].value
                /\ requests[i].value <= requests[i].max_value

\* C9: a feedback call of type Important features asks for the rank with
\* the bounds 1 and the number of feature columns, these bounds are
\* well-formed, and a rank that enters a TrubricContext lies within them.
C9_RankWithinFeatures ==
    op = "feedback" /\ test_type = "Important features" =>
        /\ Len(requests) = 3
        /\ requests[3].widget = "slider"
        /\ requests[3].min_value = 1
        /\ requests[3].max_value = Len(SchemaFeatures)
        /\ requests[3].min_value <= requests[3].max_value
        /\ t_ctx # None =>
              /\ 1 <= t_ctx[1].metadata.top_n_feature
              /\ t_ctx[1].metadata.top_n_feature <= Len(SchemaFeatures)

\* C10: BaseComponent holds no credentials, so the authentication gate is
\* absent in every state: a feedback call with tracking set raises a
\* configuration error and does not call save_test_to_json; without tracking
\* the flag only picks the log message and the saved record is the
\* constructed TrubricContext.
C10_TrackingNeedsAuth ==
    op = "feedback" =>
        /\ tracking => raised.type = "ValueError" /\ saved = <<>>
        /\ ~tracking /\ saved # <<>> =>
              saved = <<t_ctx[1]>> /\ log = <<"Predictions saved locally.">>

====
